---- MODULE Spec2Model ----
(***************************************************************************)
(* Model of the admin layer of lhbeb/fresh:                                *)
(*   - src/src/lib/supabase/auth.ts            (isAdmin, authenticateAdmin) *)
(*   - src/src/app/api/admin/upload-image/route.ts          (POST handler) *)
(*   - src/unnamed/part_000      (the two stress-test scripts: direct      *)
(*     database access, and the admin product HTTP API)                    *)
(* Strings whose characters matter (emails, ADMIN_EMAILS) are sequences of *)
(* one-character strings; JavaScript completions are records that say      *)
(* whether the call returned or threw.                                     *)
(***************************************************************************)
EXTENDS Integers, Sequences, FiniteSets, TLC

VARIABLES
    adminEmailsEnv,   \* process.env.ADMIN_EMAILS, read by getAdminEmails
    authCall,         \* the last call into auth.ts: its inputs and its completion
    storage,          \* the objects of bucket 'product-images', by path
    uploadReq,        \* the last upload request: form data, provider calls, response
    store,            \* the rows of table 'products'
    lastOp,           \* the last statement or API request on products and its result
    pc,               \* the direct-database script: the test main() is at
    pending           \* ... and the parallel updates it still awaits

authVars == <<adminEmailsEnv, authCall>>
uploadVars == <<storage, uploadReq>>
storeVars == <<store, lastOp, pc, pending>>
vars == <<authVars, uploadVars, storeVars>>

(***************************************************************************)
(* Strings                                                                 *)
(***************************************************************************)
MaxEnvLen == 3
MaxEmailLen == 2

BSeq(S, n) == UNION {[1..k -> S] : k \in 0..n}

\* String.prototype.toLowerCase on the letters of the model alphabet
LowerOf == ("A" :> "a") @@ ("E" :> "e")
ToLowerChar(c) == IF c \in DOMAIN LowerOf THEN LowerOf[c] ELSE c
ToLowerCase(s) == [i \in 1..Len(s) |-> ToLowerChar(s[i])]

\* String.prototype.trim
WhiteSpace == {" "}
RECURSIVE TrimStart(_)
TrimStart(s) == IF s # <<>> /\ Head(s) \in WhiteSpace THEN TrimStart(Tail(s)) ELSE s
RECURSIVE TrimEnd(_)
TrimEnd(s) ==
    IF s # <<>> /\ s[Len(s)] \in WhiteSpace THEN TrimEnd(SubSeq(s, 1, Len(s) - 1)) ELSE s
Trim(s) == TrimEnd(TrimStart(s))

\* String.prototype.split(','): the segments between commas, in order
RECURSIVE SplitFrom(_, _)
SplitFrom(s, cur) ==
    IF s = <<>> THEN <<cur>>
    ELSE IF Head(s) = "," THEN <<cur>> \o SplitFrom(Tail(s), <<>>)
    ELSE SplitFrom(Tail(s), Append(cur, Head(s)))
Split(s) == SplitFrom(s, <<>>)

Range(f) == {f[i] : i \in DOMAIN f}

(***************************************************************************)
(* auth.ts                                                                 *)
(***************************************************************************)
\* the literal 'elmahboubimehdi@gmail.com'
FallbackEmail ==
    <<"e","l","m","a","h","b","o","u","b","i","m","e","h","d","i","@",
      "g","m","a","i","l",".","c","o","m">>

\* process.env.ADMIN_EMAILS: undefined, or a string
EnvUnset == [defined |-> FALSE, val |-> <<>>]
EnvString(s) == [defined |-> TRUE, val |-> s]

\* getAdminEmails(): !adminEmailsEnv holds for undefined and for ''
getAdminEmails(env) ==
    IF ~env.defined \/ env.val = <<>> THEN {FallbackEmail}
    ELSE {Trim(e) : e \in Range(Split(env.val))} \ {<<>>}

\* A JavaScript value passed where a string is expected
StrVal(s) == [t |-> "string", s |-> s]
Undefined == [t |-> "undefined", s |-> <<>>]
NonString == [t |-> "object", s |-> <<>>]

\* Completions
Return(v) == [kind |-> "return", value |-> v, msg |-> ""]
Throw(m) == [kind |-> "throw", value |-> FALSE, msg |-> m]

TypeErrorMsg == "email.toLowerCase is not a function"

\* the try block of isAdmin: email.toLowerCase() throws on a value without it
isAdminTry(email, env) ==
    IF email.t # "string" THEN Throw(TypeErrorMsg)
    ELSE Return(Trim(ToLowerCase(email.s)) \in getAdminEmails(env))

\* isAdmin: the catch block returns false
isAdmin(email, env) ==
    LET c == isAdminTry(email, env)
    IN  IF c.kind = "throw" THEN Return(FALSE) ELSE c

\* What supabaseAdmin.auth.signInWithPassword does: it rejects (threw), or it
\* resolves to {data: {user}, error}
SignInThrows(m) ==
    [threw |-> TRUE, throwMsg |-> m, hasError |-> FALSE, errMsg |-> "",
     hasUser |-> FALSE, userEmail |-> Undefined]
SignInError(m, u) ==
    [threw |-> FALSE, throwMsg |-> "", hasError |-> TRUE, errMsg |-> m,
     hasUser |-> u, userEmail |-> Undefined]
SignInNoUser ==
    [threw |-> FALSE, throwMsg |-> "", hasError |-> FALSE, errMsg |-> "",
     hasUser |-> FALSE, userEmail |-> Undefined]
SignInUser(e) ==
    [threw |-> FALSE, throwMsg |-> "", hasError |-> FALSE, errMsg |-> "",
     hasUser |-> TRUE, userEmail |-> e]

\* The result object {success, error?}, or an exception leaving the function
Ok == [kind |-> "return", success |-> TRUE, hasError |-> FALSE, error |-> ""]
Fail(m) == [kind |-> "return", success |-> FALSE, hasError |-> TRUE, error |-> m]
Raise(m) == [kind |-> "throw", success |-> FALSE, hasError |-> FALSE, error |-> m]

AuthFailedMsg == "Authentication failed"
AccessDeniedMsg == "Access denied. Admin access required."

\* data.user.email || ''
OrEmpty(v) ==
    IF v.t = "undefined" \/ (v.t = "string" /\ v.s = <<>>) THEN StrVal(<<>>) ELSE v

authenticateAdminTryNoGate(o, env) ==
    IF o.threw THEN Raise(o.throwMsg)
    ELSE IF o.hasError THEN Fail(o.errMsg)
    ELSE IF ~o.hasUser THEN Fail(AuthFailedMsg)
    ELSE Ok
\* the try block of authenticateAdmin
authenticateAdminTry(o, env) ==
    IF o.threw THEN Raise(o.throwMsg)
    ELSE IF o.hasError THEN Fail(o.errMsg)
    ELSE IF ~o.hasUser THEN Fail(AuthFailedMsg)
    ELSE LET adminStatus == isAdmin(OrEmpty(o.userEmail), env)
         IN  IF adminStatus.kind = "throw" THEN Raise(adminStatus.msg)
             ELSE IF ~adminStatus.value THEN Fail(AccessDeniedMsg)
             ELSE Ok

authenticateAdminNoCatch(o, env) == authenticateAdminTry(o, env)
\* authenticateAdmin: the catch block returns the generic failure
authenticateAdmin(o, env) ==
    LET r == authenticateAdminTry(o, env)
    IN  IF r.kind = "throw" THEN Fail(AuthFailedMsg) ELSE r

(***************************************************************************)
(* Inputs of auth.ts                                                       *)
(***************************************************************************)
EnvAlphabet == {"a", "A", " ", ","}
EmailAlphabet == {"a", "A", " "}
FallbackUpper == [i \in 1..Len(FallbackEmail) |->
                    IF FallbackEmail[i] = "e" THEN "E" ELSE FallbackEmail[i]]
EnvValues ==
    {EnvUnset} \cup {EnvString(s) : s \in BSeq(EnvAlphabet, MaxEnvLen)}
        \cup {EnvString(FallbackUpper)}
EmailStrings ==
    BSeq(EmailAlphabet, MaxEmailLen)
        \cup {FallbackEmail, FallbackUpper, <<" ">> \o FallbackUpper \o <<" ">>}
EmailValues == {StrVal(s) : s \in EmailStrings} \cup {Undefined, NonString}

\* Messages of the auth provider's errors, and of exceptions of the client
ProviderMessages == {"Invalid login credentials", "Email not confirmed"}
ThrownMessages == {"fetch failed"}
SignInOutcomes ==
    {SignInThrows(m) : m \in ThrownMessages}
        \cup {SignInError(m, u) : m \in ProviderMessages, u \in BOOLEAN}
        \cup {SignInNoUser}
        \cup {SignInUser(e) : e \in EmailValues}

NoAuthCall ==
    [fn |-> "none", email |-> Undefined, outcome |-> SignInNoUser,
     admin |-> Return(FALSE), result |-> Fail(AuthFailedMsg)]

\* a caller awaits isAdmin(email)
CallIsAdmin ==
    /\ \E email \in EmailValues :
         authCall' = [NoAuthCall EXCEPT !.fn = "isAdmin", !.email = email,
                                        !.admin = isAdmin(email, adminEmailsEnv)]
    /\ UNCHANGED <<adminEmailsEnv, uploadVars, storeVars>>

\* a caller awaits authenticateAdmin(email, password); the provider decides
\* what the credentials are worth
CallAuthenticateAdmin ==
    /\ \E o \in SignInOutcomes :
         authCall' = [NoAuthCall EXCEPT !.fn = "authenticateAdmin", !.outcome = o,
                                        !.result = authenticateAdmin(o, adminEmailsEnv)]
    /\ UNCHANGED <<adminEmailsEnv, uploadVars, storeVars>>

AuthNext == CallIsAdmin \/ CallAuthenticateAdmin

(***************************************************************************)
(* upload-image/route.ts                                                   *)
(***************************************************************************)
Paths == {"a.jpg", "b.jpg"}
FileBytes == {"img1", "img2"}
ContentTypes == {"image/png", "image/jpeg"}

\* formData.get(name): null, a string (a text field), or a File
FormNull == [t |-> "null", text |-> "", bytes |-> "", type |-> ""]
FormText(x) == [t |-> "string", text |-> x, bytes |-> "", type |-> ""]
FormFile(b, ty) == [t |-> "file", text |-> "", bytes |-> b, type |-> ty]
\* JavaScript truthiness of such a value
Truthy(v) == v.t = "file" \/ (v.t = "string" /\ v.text # "")

\* Object storage: an object per path, or none
NoObject == [bytes |-> "", type |-> ""]
Object(b, ty) == [bytes |-> b, type |-> ty]
EmptyStorage == [p \in Paths |-> NoObject]

\* What the storage service does with an upload, apart from the path taken:
\* it stores, it reports an error, or the client call throws
StoreOk == [kind |-> "ok", msg |-> ""]
StoreError(m) == [kind |-> "error", msg |-> m]
StoreThrows(m) == [kind |-> "throw", msg |-> m]
DuplicateMsg == "The resource already exists"

\* storage.from('product-images').upload(path, buffer, {contentType, upsert})
StorageUpload(st, path, obj, upsert, fault) ==
    IF fault.kind # "ok" THEN [kind |-> fault.kind, msg |-> fault.msg, st |-> st]
    ELSE IF st[path] # NoObject /\ ~upsert
         THEN [kind |-> "error", msg |-> DuplicateMsg, st |-> st]
    ELSE [kind |-> "ok", msg |-> "", st |-> [st EXCEPT ![path] = obj]]

\* storage.from('product-images').getPublicUrl(path)
NoUrl == [bucket |-> "", path |-> ""]
getPublicUrl(path) == [bucket |-> "product-images", path |-> path]

\* NextResponse.json(body, {status})
ErrorResponse(status, m) ==
    [status |-> status, error |-> m, hasUrl |-> FALSE, url |-> NoUrl, path |-> ""]
UrlResponse(url, path) ==
    [status |-> 200, error |-> "", hasUrl |-> TRUE, url |-> url, path |-> path]

FailedUploadMsg == "Failed to upload image"
NoArrayBufferMsg == "file.arrayBuffer is not a function"
\* error.message || 'Failed to upload image'
MessageOr(m) == IF m # "" THEN m ELSE FailedUploadMsg

UpsertOff == FALSE
\* the upsert option of the upload call
UpsertOption == TRUE

\* A run of the handler: the response, or the exception the try block ends
\* with, the calls made to object storage, and the storage they leave
Responded(resp, uploads, urls, st) ==
    [threw |-> FALSE, msg |-> "", resp |-> resp, uploads |-> uploads,
     urls |-> urls, st |-> st]
Threw(m, uploads, urls, st) ==
    [threw |-> TRUE, msg |-> m, resp |-> ErrorResponse(0, ""), uploads |-> uploads,
     urls |-> urls, st |-> st]

POSTTryNoPathCheck(file, path, fault, st) ==
    IF ~Truthy(file) THEN Responded(ErrorResponse(400, "No file provided"), 0, 0, st)
    ELSE IF file.t # "file" THEN Threw(NoArrayBufferMsg, 0, 0, st)
    ELSE LET p == IF path.text \in Paths THEN path.text ELSE "a.jpg"
             up == StorageUpload(st, p, Object(file.bytes, file.type),
                                 UpsertOption, fault)
         IN  IF up.kind = "throw" THEN Threw(up.msg, 1, 0, up.st)
             ELSE IF up.kind = "error"
                  THEN Responded(ErrorResponse(500, MessageOr(up.msg)), 1, 0, up.st)
             ELSE Responded(UrlResponse(getPublicUrl(p), p), 1, 1, up.st)
\* the try block of POST
POSTTry(file, path, fault, st) ==
    IF ~Truthy(file) THEN Responded(ErrorResponse(400, "No file provided"), 0, 0, st)
    ELSE IF ~Truthy(path)
         THEN Responded(ErrorResponse(400, "No path provided"), 0, 0, st)
    ELSE IF file.t # "file" THEN Threw(NoArrayBufferMsg, 0, 0, st)
    ELSE LET up == StorageUpload(st, path.text, Object(file.bytes, file.type),
                                 UpsertOption, fault)
         IN  IF up.kind = "throw" THEN Threw(up.msg, 1, 0, up.st)
             ELSE IF up.kind = "error"
                  THEN Responded(ErrorResponse(500, MessageOr(up.msg)), 1, 0, up.st)
             ELSE Responded(UrlResponse(getPublicUrl(path.text), path.text),
                            1, 1, up.st)

\* POST: the catch block answers 500 with the exception's message
POSTHandler(file, path, fault, st) ==
    LET r == POSTTry(file, path, fault, st)
    IN  IF r.threw
        THEN Responded(ErrorResponse(500, MessageOr(r.msg)), r.uploads, r.urls, r.st)
        ELSE r

\* Inputs of the handler
FileEntries ==
    {FormNull, FormText(""), FormText("img1")}
        \cup {FormFile(b, ty) : b \in FileBytes, ty \in ContentTypes}
PathEntries == {FormNull, FormText("")} \cup {FormText(p) : p \in Paths}
StorageMessages == {"Bucket not found", ""}
StorageFaults ==
    {StoreOk} \cup {StoreError(m) : m \in StorageMessages}
        \cup {StoreThrows(m) : m \in {"fetch failed", ""}}

NoUploadReq ==
    [done |-> FALSE, file |-> FormNull, path |-> FormNull, fault |-> StoreOk,
     existed |-> FALSE, uploads |-> 0, urls |-> 0, resp |-> ErrorResponse(0, "")]

\* one POST /api/admin/upload-image request, from the form data to the response
PostUpload ==
    /\ \E file \in FileEntries, path \in PathEntries, fault \in StorageFaults :
         LET r == POSTHandler(file, path, fault, storage)
         IN  /\ storage' = r.st
             /\ uploadReq' = [done |-> TRUE, file |-> file, path |-> path,
                              fault |-> fault,
                              existed |-> path.text \in Paths
                                            /\ storage[path.text] # NoObject,
                              uploads |-> r.uploads,
                              urls |-> r.urls, resp |-> r.resp]
    /\ UNCHANGED <<authVars, storeVars>>

(***************************************************************************)
(* Table 'products', as the statements of the stress-test scripts use it   *)
(***************************************************************************)
Slugs == {"s1", "s2", "s3"}
Titles == {"T1", "T2"}
NumericTexts == {"99.99", "150"}
Columns == {"id", "slug", "title", "price", "description", "review_count"}

\* A JSON value sent for a numeric column: a number, or a string
Num(v) == [t |-> "number", v |-> v]
Str(v) == [t |-> "string", v |-> v]

\* testProduct, for a slug
TestProduct(slug) ==
    [id |-> slug, slug |-> slug, title |-> "T1", price |-> Num("99.99"),
     description |-> "D1"]
WithoutTitle(p) == [c \in DOMAIN p \ {"title"} |-> p[c]]

UniqueViolation == "23505"
NotNullViolation == "23502"
InvalidText == "22P02"
NoError == ""

Read(st, slug) == {r \in st : r.slug = slug}

\* the value a column takes from a JSON value (numeric columns parse strings)
Stored(c, v) == IF c = "price" THEN v.v ELSE v
BadNumber(p) ==
    "price" \in DOMAIN p /\ p.price.t = "string" /\ p.price.v \notin NumericTexts

DbInsertNoUnique(st, p) ==
    IF BadNumber(p) THEN [code |-> InvalidText, st |-> st]
    ELSE IF "title" \notin DOMAIN p THEN [code |-> NotNullViolation, st |-> st]
    ELSE [code |-> NoError,
          st |-> st \cup {[id |-> p.id, slug |-> p.slug, title |-> p.title,
                           price |-> Stored("price", p.price),
                           description |-> p.description, review_count |-> 0]}]
\* from('products').insert(p): title is NOT NULL, id and slug are unique
DbInsert(st, p) ==
    IF BadNumber(p) THEN [code |-> InvalidText, st |-> st]
    ELSE IF "title" \notin DOMAIN p THEN [code |-> NotNullViolation, st |-> st]
    ELSE IF \E r \in st : r.id = p.id \/ r.slug = p.slug
         THEN [code |-> UniqueViolation, st |-> st]
    ELSE [code |-> NoError,
          st |-> st \cup {[id |-> p.id, slug |-> p.slug, title |-> p.title,
                           price |-> Stored("price", p.price),
                           description |-> p.description, review_count |-> 0]}]

ApplyPatchSkipEmpty(r, p) ==
    [c \in DOMAIN r |->
        IF c \in DOMAIN p /\ (c # "title" \/ p[c] # "") THEN Stored(c, p[c]) ELSE r[c]]
ApplyPatchClobber(r, p) ==
    [c \in DOMAIN r |->
        IF c \in DOMAIN p THEN Stored(c, p[c])
        ELSE IF c \in {"id", "slug"} THEN r[c]
        ELSE IF c = "review_count" THEN 0 ELSE ""]
\* the row an UPDATE ... SET makes of row r: the columns named, and no other
ApplyPatch(r, p) ==
    [c \in DOMAIN r |-> IF c \in DOMAIN p THEN Stored(c, p[c]) ELSE r[c]]

DbUpdateAllRows(st, slug, p) ==
    IF BadNumber(p) THEN [code |-> InvalidText, st |-> st]
    ELSE [code |-> NoError, st |-> {ApplyPatch(r, p) : r \in st}]
\* from('products').update(p).eq('slug', slug)
DbUpdate(st, slug, p) ==
    LET hit == Read(st, slug)
        new == {ApplyPatch(r, p) : r \in hit}
    IN  IF BadNumber(p) THEN [code |-> InvalidText, st |-> st]
        ELSE IF \E n \in new : \E r \in st \ hit : r.slug = n.slug \/ r.id = n.id
             THEN [code |-> UniqueViolation, st |-> st]
        ELSE [code |-> NoError, st |-> (st \ hit) \cup new]

DbDeleteKeeps(st, slug) == [code |-> NoError, st |-> st]
\* from('products').delete().eq('slug', slug)
DbDelete(st, slug) == [code |-> NoError, st |-> st \ Read(st, slug)]

(***************************************************************************)
(* The admin product API (POST, PATCH, DELETE /admin/products), whose      *)
(* routes and updateProduct the API stress test calls                      *)
(***************************************************************************)
\* updateProduct keeps a field of the request when it passes the field's
\* check: a required string when it is not empty, a number when it is one
Accepted(c, v) ==
    IF c = "title" THEN v # ""
    ELSE IF c = "price" THEN v.t = "number"
    ELSE TRUE
ApiFilter(body) == [c \in {d \in DOMAIN body : Accepted(d, body[d])} |-> body[c]]

HttpStatus(code) == IF code = NoError THEN 200 ELSE 500

ApiCreate(st, body) ==
    LET r == DbInsert(st, body @@ [id |-> body.slug])
    IN  [status |-> HttpStatus(r.code), code |-> r.code, st |-> r.st]
ApiUpdate(st, slug, body) ==
    IF Read(st, slug) = {} THEN [status |-> 404, code |-> NoError, st |-> st]
    ELSE LET r == DbUpdate(st, slug, ApiFilter(body))
         IN  [status |-> HttpStatus(r.code), code |-> r.code, st |-> r.st]
ApiDelete(st, slug) ==
    LET r == DbDelete(st, slug)
    IN  [status |-> HttpStatus(r.code), code |-> r.code, st |-> r.st]

(***************************************************************************)
(* Statements and requests on products, in any order                       *)
(***************************************************************************)
InsertBodies ==
    {TestProduct(s) : s \in Slugs} \cup {WithoutTitle(TestProduct(s)) : s \in Slugs}
\* the API test's testProduct carries no id
CreateBodies ==
    {[slug |-> s, title |-> "T1", price |-> Num("99.99"), description |-> "D1"] :
        s \in Slugs}
UpdateBodies ==
    {[title |-> "T2", price |-> Num("150")], [title |-> ""],
     [title |-> "", price |-> Num("150")],
     [price |-> Str("not-a-number")], [price |-> Str("150")]}
        \cup {[slug |-> s] : s \in Slugs}

\* the record of a statement or request: what was asked, whether a row had
\* the slug named, the database's error code and the HTTP status
NoOp == [layer |-> "none", op |-> "none", slug |-> "", body |-> <<>>,
         hit |-> FALSE, code |-> NoError, status |-> 0]
Op(layer, op, slug, body, hit, code, status) ==
    [layer |-> layer, op |-> op, slug |-> slug, body |-> body,
     hit |-> hit, code |-> code, status |-> status]

\* the table holds at most MaxRows products
MaxRows == 2

DbInsertStmt ==
    /\ pc = "idle"
    /\ Cardinality(store) < MaxRows
    /\ \E p \in InsertBodies :
         LET r == DbInsert(store, p)
         IN  /\ store' = r.st
             /\ lastOp' = Op("db", "insert", p.slug, p,
                            Read(store, p.slug) # {}, r.code, 0)
    /\ UNCHANGED <<authVars, uploadVars, pc, pending>>

DbUpdateStmt ==
    /\ pc = "idle"
    /\ \E slug \in Slugs, p \in UpdateBodies :
         LET r == DbUpdate(store, slug, p)
         IN  /\ store' = r.st
             /\ lastOp' = Op("db", "update", slug, p,
                            Read(store, slug) # {}, r.code, 0)
    /\ UNCHANGED <<authVars, uploadVars, pc, pending>>

DbDeleteStmt ==
    /\ pc = "idle"
    /\ \E slug \in Slugs :
         LET r == DbDelete(store, slug)
         IN  /\ store' = r.st
             /\ lastOp' = Op("db", "delete", slug, <<>>,
                            Read(store, slug) # {}, r.code, 0)
    /\ UNCHANGED <<authVars, uploadVars, pc, pending>>

ApiCreateReq ==
    /\ pc = "idle"
    /\ Cardinality(store) < MaxRows
    /\ \E p \in CreateBodies :
         LET r == ApiCreate(store, p)
         IN  /\ store' = r.st
             /\ lastOp' = Op("api", "insert", p.slug, p,
                            Read(store, p.slug) # {}, r.code, r.status)
    /\ UNCHANGED <<authVars, uploadVars, pc, pending>>

ApiUpdateReq ==
    /\ pc = "idle"
    /\ \E slug \in Slugs, p \in UpdateBodies :
         LET r == ApiUpdate(store, slug, p)
         IN  /\ store' = r.st
             /\ lastOp' = Op("api", "update", slug, p,
                            Read(store, slug) # {}, r.code, r.status)
    /\ UNCHANGED <<authVars, uploadVars, pc, pending>>

ApiDeleteReq ==
    /\ pc = "idle"
    /\ \E slug \in Slugs :
         LET r == ApiDelete(store, slug)
         IN  /\ store' = r.st
             /\ lastOp' = Op("api", "delete", slug, <<>>,
                            Read(store, slug) # {}, r.code, r.status)
    /\ UNCHANGED <<authVars, uploadVars, pc, pending>>

StoreNext ==
    \/ DbInsertStmt \/ DbUpdateStmt \/ DbDeleteStmt
    \/ ApiCreateReq \/ ApiUpdateReq \/ ApiDeleteReq

(***************************************************************************)
(* main() of the direct-database stress test: its tests in order, the      *)
(* five updates of test 7 in flight together                               *)
(***************************************************************************)
TestSlug == "s1"
InvalidSlug == "s1-invalid"
NumUpdates == 5
ReviewBase == 100

\* what the table holds when the script starts: products of other slugs
OtherRows ==
    {[id |-> s, slug |-> s, title |-> t, price |-> "99.99", description |-> "D1",
      review_count |-> 0] : s \in Slugs \ {TestSlug}, t \in Titles}
OtherStores ==
    {st \in SUBSET OtherRows : \A r1, r2 \in st : r1.slug = r2.slug => r1 = r2}

\* one statement of the script: the table and the record of it change, and
\* main() goes on to the next test whatever the result (runTest catches)
Step(from, to, r, op, slug, body) ==
    /\ pc = from
    /\ pc' = to
    /\ store' = r.st
    /\ lastOp' = Op("db", op, slug, body, Read(store, slug) # {}, r.code, 0)
    /\ UNCHANGED <<authVars, uploadVars, pending>>

TestCreate ==
    Step("create", "duplicate", DbInsert(store, TestProduct(TestSlug)),
         "insert", TestSlug, TestProduct(TestSlug))
TestDuplicate ==
    Step("duplicate", "missing", DbInsert(store, TestProduct(TestSlug)),
         "insert", TestSlug, TestProduct(TestSlug))
TestMissingTitle ==
    LET invalidProduct ==
            WithoutTitle([TestProduct(TestSlug) EXCEPT !.id = InvalidSlug,
                                                       !.slug = InvalidSlug])
    IN  Step("missing", "update", DbInsert(store, invalidProduct),
             "insert", InvalidSlug, invalidProduct)
TestUpdate ==
    LET p == [title |-> "T2", price |-> Num("150")]
    IN  Step("update", "empty", DbUpdate(store, TestSlug, p), "update", TestSlug, p)
TestEmptyTitle ==
    LET p == [title |-> ""]
    IN  Step("empty", "badprice", DbUpdate(store, TestSlug, p), "update", TestSlug, p)
TestBadPrice ==
    LET p == [price |-> Str("not-a-number")]
    IN  Step("badprice", "parallel", DbUpdate(store, TestSlug, p),
             "update", TestSlug, p)

\* test 7: Array.from({length: 5}) builds the updates, Promise.all sends them
TestParallelStart ==
    /\ pc = "parallel"
    /\ pc' = "race"
    /\ pending' = 0..(NumUpdates - 1)
    /\ UNCHANGED <<authVars, uploadVars, store, lastOp>>

\* the database executes one of the updates in flight
RaceUpdate ==
    /\ pc = "race"
    /\ \E i \in pending :
         LET p == [review_count |-> i + ReviewBase]
             r == DbUpdate(store, TestSlug, p)
         IN  /\ store' = r.st
             /\ lastOp' = Op("db", "update", TestSlug, p,
                              Read(store, TestSlug) # {}, r.code, 0)
             /\ pending' = pending \ {i}
    /\ UNCHANGED <<authVars, uploadVars, pc>>

\* Promise.all has resolved; the script reads review_count back
TestParallelRead ==
    /\ pc = "race"
    /\ pending = {}
    /\ pc' = "cleanup"
    /\ lastOp' = Op("db", "select", TestSlug, <<>>,
                     Read(store, TestSlug) # {}, NoError, 0)
    /\ UNCHANGED <<authVars, uploadVars, store, pending>>

TestCleanup ==
    Step("cleanup", "done", DbDelete(store, TestSlug), "delete", TestSlug, <<>>)

ScriptNext ==
    \/ TestCreate \/ TestDuplicate \/ TestMissingTitle \/ TestUpdate
    \/ TestEmptyTitle \/ TestBadPrice
    \/ TestParallelStart \/ RaceUpdate \/ TestParallelRead \/ TestCleanup

(***************************************************************************)
(* Specifications                                                          *)
(***************************************************************************)
\* auth.ts: the process starts with some ADMIN_EMAILS and serves calls
InitAuth ==
    /\ adminEmailsEnv \in EnvValues
    /\ authCall = NoAuthCall
    /\ storage = EmptyStorage
    /\ uploadReq = NoUploadReq
    /\ store = {}
    /\ lastOp = NoOp
    /\ pc = "idle"
    /\ pending = {}
SpecAuth == InitAuth /\ [][AuthNext]_vars

\* route.ts: the bucket starts empty and the handler serves requests
InitUpload ==
    /\ adminEmailsEnv = EnvUnset
    /\ authCall = NoAuthCall
    /\ storage = EmptyStorage
    /\ uploadReq = NoUploadReq
    /\ store = {}
    /\ lastOp = NoOp
    /\ pc = "idle"
    /\ pending = {}
SpecUpload == InitUpload /\ [][PostUpload]_vars

\* products: the table starts empty and serves statements and API requests
InitStore ==
    /\ adminEmailsEnv = EnvUnset
    /\ authCall = NoAuthCall
    /\ storage = EmptyStorage
    /\ uploadReq = NoUploadReq
    /\ store = {}
    /\ lastOp = NoOp
    /\ pc = "idle"
    /\ pending = {}
SpecStore == InitStore /\ [][StoreNext]_vars

\* the direct-database script, started on a table without its test slug
InitScript ==
    /\ adminEmailsEnv = EnvUnset
    /\ authCall = NoAuthCall
    /\ storage = EmptyStorage
    /\ uploadReq = NoUploadReq
    /\ store \in OtherStores
    /\ lastOp = NoOp
    /\ pc = "create"
    /\ pending = {}
SpecScript == InitScript /\ [][ScriptNext]_vars

(***************************************************************************)
(* Properties of auth.ts                                                   *)
(***************************************************************************)
\* The normalization the allow-list is specified with: trim and lowercase
Normalize(s) == Trim(ToLowerCase(s))
\* s equals some configured allow-list entry once both are normalized
OnAllowList(v, env) ==
    /\ v.t = "string"
    /\ \E e \in getAdminEmails(env) : Normalize(e) = Normalize(v.s)

\* C1: isAdmin(email) is true whenever the email, trimmed and lower-cased,
\* equals some allow-list entry trimmed and lower-cased, upper-case letters in
\* the configured entry included.
C1_CaseInsensitive ==
    (authCall.fn = "isAdmin" /\ OnAllowList(authCall.email, adminEmailsEnv))
        => authCall.admin = Return(TRUE)

SignInAccepted(o) == ~o.threw /\ ~o.hasError /\ o.hasUser
RejectedOutcomes == {o \in SignInOutcomes : ~o.threw /\ o.hasError}

\* C2: authenticateAdmin succeeds only if the sign-in returned no error and a
\* user whose email is on the allow-list; accepted credentials of an identity
\* off the allow-list give the fixed access-denied failure, which no rejected
\* sign-in gives.
C2_SecondGate ==
    authCall.fn = "authenticateAdmin" =>
        LET o == authCall.outcome
            email == OrEmpty(o.userEmail)
        IN  /\ authCall.result.success =>
                  SignInAccepted(o) /\ OnAllowList(email, adminEmailsEnv)
            /\ (SignInAccepted(o) /\ ~OnAllowList(email, adminEmailsEnv)) =>
                  /\ authCall.result = Fail(AccessDeniedMsg)
                  /\ \A r \in RejectedOutcomes :
                        authenticateAdmin(r, adminEmailsEnv) # authCall.result

C2_Witness ==
    /\ authCall.fn = "authenticateAdmin"
    /\ SignInAccepted(authCall.outcome)
    /\ authCall.outcome.userEmail.t = "string"
    /\ authCall.outcome.userEmail.s # <<>>
    /\ getAdminEmails(adminEmailsEnv) # {FallbackEmail}
    /\ ~OnAllowList(authCall.outcome.userEmail, adminEmailsEnv)
    /\ authCall.result = Fail(AccessDeniedMsg)

\* the allow-list check raises inside isAdmin (its argument has no toLowerCase)
AllowListCheckRaises(o, env) ==
    SignInAccepted(o) /\ isAdminTry(OrEmpty(o.userEmail), env).kind = "throw"

\* what C3 says in every case but that of a raising allow-list check
C3_Common ==
    authCall.fn = "authenticateAdmin" =>
        LET o == authCall.outcome
            r == authCall.result
        IN  /\ r.kind = "return"
            /\ (~o.threw /\ o.hasError) => r = Fail(o.errMsg)
            /\ o.threw => (r = Fail(AuthFailedMsg) /\ r.error # o.throwMsg)

\* C3 (as claimed): authenticateAdmin never throws; a provider error gives a
\* failure with exactly the provider's message; an exception of the provider
\* call or of the allow-list check gives the generic 'Authentication failed',
\* with nothing of the exception's message.
C3_Original ==
    /\ C3_Common
    /\ (authCall.fn = "authenticateAdmin"
            /\ AllowListCheckRaises(authCall.outcome, adminEmailsEnv))
          => (authCall.result = Fail(AuthFailedMsg)
                /\ authCall.result.error # TypeErrorMsg)

\* C3 (amended): as claimed, except that an exception of the allow-list check
\* is caught inside isAdmin, which answers false, so the result is the
\* access-denied failure, again with nothing of the exception's message.
C3_Amended ==
    /\ C3_Common
    /\ (authCall.fn = "authenticateAdmin"
            /\ AllowListCheckRaises(authCall.outcome, adminEmailsEnv))
          => (authCall.result = Fail(AccessDeniedMsg)
                /\ authCall.result.error # TypeErrorMsg)

C3_Witness ==
    /\ authCall.fn = "authenticateAdmin"
    /\ AllowListCheckRaises(authCall.outcome, adminEmailsEnv)
    /\ authCall.result = Fail(AccessDeniedMsg)
(***************************************************************************)
(* Properties of the upload handler                                        *)
(***************************************************************************)
\* C4: a request without a file, or without a path, is answered 400 ('No file
\* provided' when the file is missing, else 'No path provided'), no upload or
\* public-URL call is made and the bucket is as it was.
C4_MissingInput ==
    [][LET q == uploadReq'
       IN  (~Truthy(q.file) \/ ~Truthy(q.path)) =>
              /\ q.resp = ErrorResponse(400, IF ~Truthy(q.file)
                                             THEN "No file provided"
                                             ELSE "No path provided")
              /\ q.uploads = 0
              /\ q.urls = 0
              /\ storage' = storage]_vars

C4_Witness ==
    /\ uploadReq.done
    /\ uploadReq.file.t = "file"
    /\ uploadReq.path.t = "null"
    /\ uploadReq.resp = ErrorResponse(400, "No path provided")
    /\ uploadReq.uploads = 0
    /\ storage # EmptyStorage

\* what the handler owes a request whose upload the provider takes: the public
\* URL of the path and the stored path, the object at the path replaced
UploadTaken(q, before, after) ==
    /\ q.resp = UrlResponse(getPublicUrl(q.path.text), q.path.text)
    /\ after = [before EXCEPT ![q.path.text] = Object(q.file.bytes, q.file.type)]

\* C5 (as claimed): with file and path present there is exactly one upload
\* attempt, an object already at the path is replaced without a conflict error,
\* a provider error gives 500 with the provider's message and no URL, and
\* success gives the public URL of the path and the stored path.
C5_Original ==
    [][LET q == uploadReq'
       IN  (Truthy(q.file) /\ Truthy(q.path)) =>
              /\ q.uploads = 1
              /\ q.fault.kind = "ok" => UploadTaken(q, storage, storage')
              /\ q.fault.kind # "ok" =>
                    /\ q.resp = ErrorResponse(500, q.fault.msg)
                    /\ storage' = storage]_vars

\* C5 (amended): as claimed for a File and a path, except that the 500 carries
\* 'Failed to upload image' when the provider's message is empty; and when the
\* 'file' entry is a text field, no upload is attempted and the answer is 500
\* with the exception's message.
C5_Amended ==
    [][LET q == uploadReq'
       IN  /\ (q.file.t = "file" /\ Truthy(q.path)) =>
                 /\ q.uploads = 1
                 /\ q.fault.kind = "ok" => UploadTaken(q, storage, storage')
                 /\ q.fault.kind # "ok" =>
                       /\ q.resp = ErrorResponse(500, IF q.fault.msg # ""
                                                      THEN q.fault.msg
                                                      ELSE FailedUploadMsg)
                       /\ storage' = storage
           /\ (q.file.t = "string" /\ Truthy(q.file) /\ Truthy(q.path)) =>
                 /\ q.uploads = 0
                 /\ q.resp = ErrorResponse(500, NoArrayBufferMsg)
                 /\ storage' = storage]_vars

C5_Witness ==
    /\ uploadReq.done
    /\ uploadReq.file.t = "file"
    /\ Truthy(uploadReq.path)
    /\ uploadReq.existed
    /\ uploadReq.fault.kind = "ok"
    /\ uploadReq.uploads = 1
    /\ uploadReq.resp.status = 200
    /\ storage[uploadReq.path.text] = Object(uploadReq.file.bytes, uploadReq.file.type)

(***************************************************************************)
(* Properties of the product store                                         *)
(***************************************************************************)
RaceValues == {i + ReviewBase : i \in 0..(NumUpdates - 1)}

\* C6: once the five parallel updates of review_count have completed, the row
\* holds one of the five values written; no update touches another column of
\* the row, or another row.
C6_RaceResult ==
    /\ [](pc = "cleanup" =>
            \E r \in store : /\ Read(store, TestSlug) = {r}
                             /\ r.review_count \in RaceValues)
    /\ [][pc = "race" =>
            /\ Cardinality(store') = Cardinality(store)
            /\ \A r \in store : \E n \in store' :
                  /\ \A c \in Columns \ {"review_count"} : n[c] = r[c]
                  /\ r.slug # TestSlug => n = r]_vars

\* the winner is not the update issued last
C6_Witness ==
    /\ pc = "cleanup"
    /\ \E r \in store : r.slug = TestSlug /\ r.review_count = ReviewBase
    /\ Cardinality(store) > 1

SlugsUnique(st) == \A r1, r2 \in st : r1.slug = r2.slug => r1 = r2
\* the step was an update that names a new slug for an existing product
IsRename(o) == o.op = "update" /\ "slug" \in DOMAIN o.body /\ o.hit
\* the step was an insert of a whole product
IsCreate(o) ==
    o.op = "insert" /\ "title" \in DOMAIN o.body /\ o.body.price.t = "number"

IsEmptyTitle(o) ==
    o.op = "update" /\ o.hit /\ "title" \in DOMAIN o.body /\ o.body.title = ""
                    /\ ~BadNumber(o.body)

\* C8 (as claimed): an update of an existing product whose title is the empty
\* string succeeds and leaves the stored title as it was.
C8_Original ==
    [][LET o == lastOp'
       IN  IsEmptyTitle(o) =>
              /\ o.code = NoError
              /\ \A r \in Read(store, o.slug) :
                    \E n \in store' : n.id = r.id /\ n.title = r.title]_vars

\* C8 (amended): such an update succeeds; through the admin API the stored
\* title stays as it was, while the same update sent to the database directly
\* stores the empty title.
C8_Amended ==
    [][LET o == lastOp'
       IN  IsEmptyTitle(o) =>
              /\ o.code = NoError
              /\ \A r \in Read(store, o.slug) :
                    \E n \in store' :
                       /\ n.id = r.id
                       /\ n.title = IF o.layer = "api" THEN r.title ELSE ""]_vars

C8_Witness ==
    /\ lastOp.layer = "api"
    /\ IsEmptyTitle(lastOp)
    /\ lastOp.status = 200
    /\ \E r \in Read(store, lastOp.slug) : r.title # ""

\* C9: an update of an existing product with a valid title and a numeric price
\* changes those two fields of that product and nothing else in the table.
C9_PartialUpdate ==
    [][LET o == lastOp'
       IN  (o.op = "update" /\ o.hit /\ DOMAIN o.body = {"title", "price"}
               /\ o.body.title # "" /\ o.body.price.t = "number") =>
              /\ o.code = NoError
              /\ \A r \in Read(store, o.slug) :
                    store' = (store \ {r})
                               \cup {[r EXCEPT !.title = o.body.title,
                                               !.price = o.body.price.v]}]_vars

C9_Witness ==
    /\ lastOp.op = "update"
    /\ lastOp.hit
    /\ DOMAIN lastOp.body = {"title", "price"}
    /\ lastOp.body.title = "T2"
    /\ Cardinality(store) > 1
    /\ \E r \in Read(store, lastOp.slug) :
          r.title = "T2" /\ r.price = "150" /\ r.description = "D1" /\ r.id # r.slug

\* a rename from old to new leaves the product under new and nothing under old
RenameMoves ==
    [][LET o == lastOp'
       IN  (IsRename(o) /\ o.body.slug # o.slug /\ o.code = NoError) =>
              /\ Read(store', o.slug) = {}
              /\ \A r \in Read(store, o.slug) :
                    Read(store', o.body.slug) = {[r EXCEPT !.slug = o.body.slug]}]_vars
\* a delete leaves nothing under the slug
DeleteRemoves ==
    [][LET o == lastOp'
       IN  (o.op = "delete" /\ o.code = NoError) => Read(store', o.slug) = {}]_vars

\* C10 (as claimed): after a rename the product is read under the new slug and
\* the old slug is not found; after a delete of a product the slug stays not
\* found until a product with that slug is created.
C10_Original ==
    /\ RenameMoves
    /\ DeleteRemoves
    /\ [][(lastOp.op = "delete" /\ lastOp.hit /\ lastOp.code = NoError
              /\ Read(store', lastOp.slug) # {}) =>
             (IsCreate(lastOp') /\ lastOp'.slug = lastOp.slug)]_vars

\* C10 (amended): ... the slug stays not found until a product with that slug
\* is created or another product is renamed to it: a slug that is not found
\* comes to be found only by such a step.
C10_Amended ==
    /\ RenameMoves
    /\ DeleteRemoves
    /\ [][\A s \in Slugs :
             (Read(store, s) = {} /\ Read(store', s) # {}) =>
                \/ IsCreate(lastOp') /\ lastOp'.slug = s
                \/ IsRename(lastOp') /\ lastOp'.body.slug = s]_vars

C10_Witness ==
    /\ IsRename(lastOp)
    /\ lastOp.body.slug # lastOp.slug
    /\ lastOp.code = NoError
    /\ Read(store, lastOp.slug) = {}
    /\ Read(store, lastOp.body.slug) # {}
    /\ Cardinality(store) > 1
====
